---------------------------- MODULE Spec2Model ----------------------------
(***************************************************************************)
(* Meeting-Assistant backend (src/backend.py): the /summarize request      *)
(* handler summarize_meeting and the functions it calls, as a state        *)
(* machine.                                                                *)
(*                                                                         *)
(* Text is a sequence of one-character strings, so that strip, lower,      *)
(* startswith, join and the regular-expression searches are computed on    *)
(* characters as Python computes them.  Python values whose type is not    *)
(* fixed (the parsed JSON of tier 1, Optional[str]) are tagged records     *)
(* [t |-> type, v |-> value].                                              *)
(***************************************************************************)
EXTENDS Integers, Sequences, FiniteSets, TLC

VARIABLES
    fs,       \* the temporary directory: path -> file (or Absent)
    pc,       \* per request: the place the handler has reached
    up,       \* per request: what the client sent (filename, bytes, target_lang)
    loc,      \* per request: the handler's local variables
    resp,     \* per request: the outcome delivered to the client
    trace,    \* per request: the collaborators invoked so far, in order
    running   \* the request whose synchronous section occupies the event loop

vars == <<fs, pc, up, loc, resp, trace, running>>

---------------------------------------------------------------------------
(* Bounds of the model *)

\* Largest upload, in reads of the upload loop (one read = 1024 * 1024 bytes).
MaxChunks == 3

\* Most segments the speech engine yields for one audio.
MaxSegs == 2

\* The configured upload limit, in reads of the upload loop.  The source sets
\* 2 * 1024 * 1024 * 1024 bytes = 2048 reads; scaled to 2 so that an upload
\* over the limit is within MaxChunks.
MAX_UPLOAD_BYTES == 2

Requests == {"r1", "r2"}

\* The requests a specification serves.
Serving == {"r1"}

---------------------------------------------------------------------------
(* Text *)

UpperLetters == <<"A","B","C","D","E","F","G","H","I","J","K","L","M",
                  "N","O","P","Q","R","S","T","U","V","W","X","Y","Z">>

LowerLetters == <<"a","b","c","d","e","f","g","h","i","j","k","l","m",
                  "n","o","p","q","r","s","t","u","v","w","x","y","z">>

Range(s) == {s[i] : i \in DOMAIN s}

IsUpper(c) == c \in Range(UpperLetters)

IsLower(c) == c \in Range(LowerLetters)

IsDigit(c) == c \in {"0","1","2","3","4","5","6","7","8","9"}

\* str.isspace for the characters of the model
IsSpace(c) == c \in {" ", "\n", "\t"}

\* str.lower, one character
LowerChar(c) ==
    IF IsUpper(c)
    THEN LowerLetters[CHOOSE i \in DOMAIN UpperLetters : UpperLetters[i] = c]
    ELSE c

\* str.lower
Lower(s) == [i \in DOMAIN s |-> LowerChar(s[i])]

\* s[a:b] of Python, 0-based half-open, for 0 <= a
Slice(s, a, b) ==
    IF b <= a THEN <<>> ELSE SubSeq(s, a + 1, IF b > Len(s) THEN Len(s) ELSE b)

\* str.startswith
StartsWith(s, p) == Len(p) <= Len(s) /\ SubSeq(s, 1, Len(p)) = p

\* whether p occurs in s at 0-based position i
MatchAt(s, p, i) == i + Len(p) <= Len(s) /\ SubSeq(s, i + 1, i + Len(p)) = p

\* the Python expression  p in s
Contains(s, p) == \E i \in 0..Len(s) : MatchAt(s, p, i)

\* str.find of one character: 0-based index of the first occurrence, or -1
Find(s, c) ==
    IF \E i \in DOMAIN s : s[i] = c
    THEN (CHOOSE i \in DOMAIN s : s[i] = c /\ \A j \in 1..(i-1) : s[j] # c) - 1
    ELSE -1

\* str.rfind of one character
RFind(s, c) ==
    IF \E i \in DOMAIN s : s[i] = c
    THEN (CHOOSE i \in DOMAIN s : s[i] = c /\ \A j \in (i+1)..Len(s) : s[j] # c) - 1
    ELSE -1

\* str.strip
Strip(s) ==
    IF \A i \in DOMAIN s : IsSpace(s[i]) THEN <<>>
    ELSE LET a == CHOOSE i \in DOMAIN s :
                     ~IsSpace(s[i]) /\ \A j \in 1..(i-1) : IsSpace(s[j])
             b == CHOOSE i \in DOMAIN s :
                     ~IsSpace(s[i]) /\ \A j \in (i+1)..Len(s) : IsSpace(s[j])
         IN  SubSeq(s, a, b)

RECURSIVE Join(_, _)
\* sep.join(parts)
Join(sep, parts) ==
    IF parts = <<>> THEN <<>>
    ELSE IF Len(parts) = 1 THEN parts[1]
    ELSE parts[1] \o sep \o Join(sep, Tail(parts))

\* A faulty variant of Dedup: repeated elements are kept
Dedup_Keeping(xs) == xs

RECURSIVE Dedup(_)
\* list(dict.fromkeys(xs)): the first occurrence of each element, in order
Dedup(xs) ==
    IF xs = <<>> THEN <<>>
    ELSE LET init == Dedup(SubSeq(xs, 1, Len(xs) - 1))
             last == xs[Len(xs)]
         IN  IF \E i \in DOMAIN init : init[i] = last
             THEN init ELSE Append(init, last)

---------------------------------------------------------------------------
(* Python values *)

PNone == [t |-> "null", v |-> 0]

PStr(s) == [t |-> "str", v |-> s]

PNum(n) == [t |-> "num", v |-> n]

PBool(b) == [t |-> "bool", v |-> b]

PList(xs) == [t |-> "list", v |-> xs]

PDict(f) == [t |-> "dict", v |-> f]

EmptyDict == [k \in {} |-> PNone]

\* The keys of the structured record and of a task
K_summary == <<"s","u","m","m","a","r","y">>

K_action_points == <<"a","c","t","i","o","n","_","p","o","i","n","t","s">>

K_tasks == <<"t","a","s","k","s">>

K_deadlines == <<"d","e","a","d","l","i","n","e","s">>

K_speakers == <<"s","p","e","a","k","e","r","s">>

K_speaker == <<"s","p","e","a","k","e","r">>

K_assignee == <<"a","s","s","i","g","n","e","e">>

K_task == <<"t","a","s","k">>

K_deadline == <<"d","e","a","d","l","i","n","e">>

K_source == <<"s","o","u","r","c","e">>

\* bool(x)
Truthy(x) ==
    CASE x.t = "null" -> FALSE
      [] x.t = "str"  -> x.v # <<>>
      [] x.t = "num"  -> x.v # 0
      [] x.t = "bool" -> x.v
      [] x.t = "list" -> x.v # <<>>
      [] x.t = "dict" -> DOMAIN x.v # {}

\* the Python expression  x or y
Or(x, y) == IF Truthy(x) THEN x ELSE y

\* dict.get(k, default), d the mapping of a dict
Get(d, k, default) == IF k \in DOMAIN d THEN d[k] ELSE default

\* A faulty variant of SetDefault: a missing key stays missing
SetDefault_Skipping(d, k, default) == d

\* dict.setdefault(k, default), d the mapping of a dict
SetDefault(d, k, default) ==
    IF k \in DOMAIN d THEN d ELSE (k :> default) @@ d

---------------------------------------------------------------------------
(* Regular expressions of the fallback extractor.  A search is computed as *)
(* the table of what the pattern does at every offset, and the leftmost    *)
(* success is taken from the table.                                        *)

\* The least index of f, a function on integers, whose value is not bad; or -1
FirstNot(f, bad) ==
    IF \E i \in DOMAIN f : f[i] # bad
    THEN CHOOSE i \in DOMAIN f : f[i] # bad /\ \A j \in DOMAIN f : j < i => f[j] = bad
    ELSE -1

\* The greatest index of f whose value is not bad; or -1
LastNot(f, bad) ==
    IF \E i \in DOMAIN f : f[i] # bad
    THEN CHOOSE i \in DOMAIN f : f[i] # bad /\ \A j \in DOMAIN f : j > i => f[j] = bad
    ELSE -1

\* f[i], or bad when i = -1
At(f, i, bad) == IF i = -1 THEN bad ELSE f[i]

RECURSIVE Flatten(_)
\* the concatenation of a sequence of sequences
Flatten(ss) == IF ss = <<>> THEN <<>> ELSE Head(ss) \o Flatten(Tail(ss))

\* An element of a pattern: a literal among alternatives (tried in order),
\* or a run of a character class
Alt(xs) == [k |-> "alt", x |-> xs]

Lit(x) == Alt(<<x>>)

Cls(k) == [k |-> k, x |-> <<>>]

\* whether literal x occurs in s at offset p; ci: re.IGNORECASE
LitAt(s, x, p, ci) ==
    /\ p + Len(x) <= Len(s)
    /\ \A i \in 1..Len(x) :
          IF ci THEN LowerChar(s[p + i]) = LowerChar(x[i]) ELSE s[p + i] = x[i]

InClass(k, c) ==
    CASE k \in {"ws+", "ws*"} -> IsSpace(c)
      [] k \in {"upper", "letters+"} /\ IsUpper(c) -> TRUE
      [] k \in {"lower+", "letters+"} -> IsLower(c)
      [] k = "digits*" -> IsDigit(c)
      [] OTHER -> FALSE

\* the end of the longest run of TRUE in b that starts at offset p
RunStop(b, p) ==
    CHOOSE q \in p..Len(b) :
        (\A i \in (p + 1)..q : b[i]) /\ (q = Len(b) \/ ~b[q + 1])

\* the end of the longest run of class k in s that starts at offset p
RunEnd(k, s, p) == RunStop([i \in DOMAIN s |-> InClass(k, s[i])], p)

\* What a run that ends at e gives for an element of kind k at offset p:
\* the offset after the element, or -1
ClassEnd(k, e, p) ==
    CASE k \in {"ws*", "digits*"} -> e
      [] k = "upper" -> IF e > p THEN p + 1 ELSE -1
      [] OTHER -> IF e > p THEN e ELSE -1

\* One element matched greedily at offset p: the offset after it, or -1.
\* (In the patterns below no element that follows a run can begin inside the
\* run, and no two alternatives match at one offset, so the greedy choice is
\* the only one the regular-expression engine can succeed with.)
MatchItem(item, s, p, ci) ==
    IF item.k = "alt"
    THEN At([a \in DOMAIN item.x |-> p + Len(item.x[a])],
            FirstNot([a \in DOMAIN item.x |-> LitAt(s, item.x[a], p, ci)], FALSE),
            -1)
    ELSE ClassEnd(item.k, RunEnd(item.k, s, p), p)

RECURSIVE MatchSeq(_, _, _, _)
RECURSIVE MatchRest(_, _, _, _, _)
\* The elements of items matched in turn from offset p: the sequence of
\* offsets, p and the one after each element, or <<>> when one fails.
MatchSeq(items, s, p, ci) ==
    IF items = <<>> THEN <<p>>
    ELSE MatchRest(Tail(items), s, p, ci, MatchItem(Head(items), s, p, ci))

\* the same once the first element has ended at q
MatchRest(items, s, p, ci, q) ==
    IF q = -1 THEN <<>>
    ELSE IF MatchSeq(items, s, q, ci) = <<>> THEN <<>>
    ELSE <<p>> \o MatchSeq(items, s, q, ci)

\* $ without re.MULTILINE: the end, or just before a final newline
AtDollar(s, p) == p = Len(s) \/ (p = Len(s) - 1 /\ s[Len(s)] = "\n")

\* (.+?)(?:\.|$) from offset q: the offset where the lazy group ends, or -1
LazyEnd(s, q) ==
    FirstNot([e \in 1..Len(s) |->
                 /\ e > q
                 /\ \A i \in (q + 1)..e : s[i] # "\n"
                 /\ ((e < Len(s) /\ s[e + 1] = ".") \/ AtDollar(s, e))],
             FALSE)

\* the last offset in (p, W] from which the lazy group matches: <<start,
\* end>> of the group, or <<>>
TailPick(ends) ==
    IF LastNot(ends, -1) = -1 THEN <<>> ELSE <<LastNot(ends, -1), ends[LastNot(ends, -1)]>>

\* \s+(.+?)(?:\.|$) from offset p.  The whitespace run is greedy and gives
\* characters back to the group only when the group cannot match after the
\* whole run.
TaskTail(s, p) ==
    TailPick([q \in 1..Len(s) |->
                 IF p < q /\ q <= RunEnd("ws+", s, p) THEN LazyEnd(s, q) ELSE -1])

\* src/backend.py 131-135; each pattern is its head, then \s+(.+?)(?:\.|$)
TASK_PATTERNS == <<
    <<Cls("upper"), Cls("lower+"), Cls("ws+"),
      Alt(<<<<"w","i","l","l">>, <<"s","h","o","u","l","d">>, <<"n","e","e","d","s"," ","t","o">>, <<"i","s"," ","g","o","i","n","g"," ","t","o">>, <<"m","u","s","t">>, <<"h","a","s"," ","t","o">>>>)>>,
    <<Cls("upper"), Cls("lower+"), Cls("ws*"), Lit(<<":">>), Cls("ws*"),
      Alt(<<<<"w","i","l","l">>, <<"s","h","o","u","l","d">>, <<"n","e","e","d","s"," ","t","o">>, <<"m","u","s","t">>>>)>>,
    <<Cls("upper"), Cls("lower+"), Cls("ws+"),
      Alt(<<<<"a","s","s","i","g","n","e","d">>, <<"t","a","s","k","e","d">>>>), Cls("ws+"), Lit(<<"t","o">>)>> >>

\* src/backend.py 137-147
DEADLINE_PATTERNS == <<
    <<Lit(<<"b","y">>), Cls("ws+"), Cls("letters+"), Cls("ws*"), Cls("digits*")>>,
    <<Lit(<<"b","y">>), Cls("ws+"), Lit(<<"e","n","d"," ","o","f"," ","w","e","e","k">>)>>,
    <<Lit(<<"b","y">>), Cls("ws+"), Lit(<<"t","o","m","o","r","r","o","w">>)>>,
    <<Lit(<<"b","y">>), Cls("ws+"), Lit(<<"n","e","x","t"," ","w","e","e","k">>)>>,
    <<Lit(<<"b","y">>), Cls("ws+"), Lit(<<"F","r","i","d","a","y">>)>>,
    <<Lit(<<"b","y">>), Cls("ws+"), Lit(<<"M","o","n","d","a","y">>)>>,
    <<Lit(<<"b","y">>), Cls("ws+"), Lit(<<"T","h","u","r","s","d","a","y">>)>>,
    <<Lit(<<"b","y">>), Cls("ws+"), Lit(<<"S","u","n","d","a","y">>)>>,
    <<Lit(<<"b","e","f","o","r","e">>), Cls("ws+"), Lit(<<"n","e","x","t">>), Cls("ws+"), Lit(<<"m","e","e","t","i","n","g">>)>> >>

\* groups 1 and 2 of a task pattern whose head matched with offsets m and
\* whose tail gave g
TaskGroups(s, m, g) ==
    IF g = <<>> THEN <<>>
    ELSE <<[name |-> SubSeq(s, m[1] + 1, m[3]), task |-> SubSeq(s, g[1] + 1, g[2])]>>

\* the tail of a task pattern after a head that matched with offsets m
TaskAfterHead(s, m) ==
    IF m = <<>> THEN <<>> ELSE TaskGroups(s, m, TaskTail(s, m[Len(m)]))

\* One task pattern tried at offset i: <<[name, task]>>, or <<>>
TaskMatchAt(pat, s, i) == TaskAfterHead(s, MatchSeq(pat, s, i, FALSE))

\* re.search(pat, s) for a task pattern: the leftmost match, or <<>>
TaskSearch(pat, s) ==
    LET tries == [i \in 0..Len(s) |-> TaskMatchAt(pat, s, i)]
    IN  At(tries, FirstNot(tries, <<>>), <<>>)

\* group(0) of the leftmost match in the table of head offsets
MatchText(s, tries) ==
    IF FirstNot(tries, <<>>) = -1 THEN <<>>
    ELSE <<SubSeq(s, FirstNot(tries, <<>>) + 1,
                  tries[FirstNot(tries, <<>>)][Len(tries[FirstNot(tries, <<>>)])])>>

\* re.search(dp, s, re.IGNORECASE) for a deadline pattern: <<group(0)>>, or <<>>
DeadlineSearch(dp, s) == MatchText(s, [i \in 0..Len(s) |-> MatchSeq(dp, s, i, TRUE)])

---------------------------------------------------------------------------
(* Tier 2: the local fallback extractor *)

RECURSIVE SplitAt(_, _)
\* text cut at the runs of whitespace that cuts marks: cuts[i] is the offset
\* after the run that starts at the i-th character, or -1
SplitAt(text, cuts) ==
    IF FirstNot(cuts, -1) = -1 THEN <<text>>
    ELSE <<SubSeq(text, 1, FirstNot(cuts, -1) - 1)>>
         \o SplitAt(SubSeq(text, cuts[FirstNot(cuts, -1)] + 1, Len(text)),
                    [i \in 1..(Len(text) - cuts[FirstNot(cuts, -1)]) |->
                        IF cuts[i + cuts[FirstNot(cuts, -1)]] = -1 THEN -1
                        ELSE cuts[i + cuts[FirstNot(cuts, -1)]] - cuts[FirstNot(cuts, -1)]])

\* re.split(r"(?<=[.!?])\s+", text): cut at each run of whitespace that
\* directly follows '.', '!' or '?'
SplitSentences(text) ==
    SplitAt(text, [i \in DOMAIN text |->
                      IF i > 1 /\ text[i - 1] \in {".", "!", "?"} /\ IsSpace(text[i])
                      THEN RunEnd("ws+", text, i - 1) ELSE -1])

ACTION_KEYWORDS ==
    <<<<"s","h","o","u","l","d">>, <<"n","e","e","d"," ","t","o">>, <<"m","u","s","t">>, <<"w","i","l","l">>, <<"t","a","r","g","e","t","i","n","g">>, <<"a","i","m"," ","t","o">>>>

NO_SUMMARY == <<"N","o"," ","s","u","m","m","a","r","y"," ","a","v","a","i","l","a","b","l","e",".">>

\* what each deadline pattern, in declared order, finds in s
DeadlineMatches(s) ==
    [d \in DOMAIN DEADLINE_PATTERNS |-> DeadlineSearch(DEADLINE_PATTERNS[d], s)]

\* what each task pattern, in declared order, finds in s
TaskMatches(s) ==
    [p \in DOMAIN TASK_PATTERNS |-> TaskSearch(TASK_PATTERNS[p], s)]

\* A faulty variant of TaskDict: the deadline found is not attached
TaskDict_NoDeadline(m, dl, s) ==
    PDict((K_speaker  :> PStr(m.name)) @@
          (K_assignee :> PStr(m.name)) @@
          (K_task     :> PStr(Strip(m.task))) @@
          (K_deadline :> PNone) @@
          (K_source   :> PStr(s)))

\* The task a matching pattern appends, dl the first deadline match of the
\* sentence (the inner loop stops at its first match)
TaskDict(m, dl, s) ==
    PDict((K_speaker  :> PStr(m.name)) @@
          (K_assignee :> PStr(m.name)) @@
          (K_task     :> PStr(Strip(m.task))) @@
          (K_deadline :> IF dl = <<>> THEN PNone ELSE PStr(dl[1])) @@
          (K_source   :> PStr(s)))

\* A faulty variant of SentenceLists: a task gets the match of the last
\* deadline pattern that matches, not of the first
SentenceLists_LastDeadline(s, sl, tm, dm) ==
    [action_points |->
         IF \E k \in DOMAIN ACTION_KEYWORDS : Contains(sl, ACTION_KEYWORDS[k])
         THEN <<s>> ELSE <<>>,
     tasks |->
         Flatten([p \in DOMAIN tm |->
                     IF tm[p] = <<>> THEN <<>>
                     ELSE <<TaskDict(tm[p][1], At(dm, LastNot(dm, <<>>), <<>>), s)>>]),
     deadlines |->
         Flatten([p \in DOMAIN tm |->
                     IF tm[p] = <<>> THEN <<>> ELSE At(dm, LastNot(dm, <<>>), <<>>)])
         \o Flatten(dm)]

\* One pass of the loop over sentences: what sentence s appends to each list,
\* given its lowercase form and what the patterns find in it.  The loop over
\* TASK_PATTERNS has no break after a match: every pattern that matches
\* appends a task, and the deadline of the sentence once more.
SentenceLists(s, sl, tm, dm) ==
    [action_points |->
         IF \E k \in DOMAIN ACTION_KEYWORDS : Contains(sl, ACTION_KEYWORDS[k])
         THEN <<s>> ELSE <<>>,
     tasks |->
         Flatten([p \in DOMAIN tm |->
                     IF tm[p] = <<>> THEN <<>>
                     ELSE <<TaskDict(tm[p][1], At(dm, FirstNot(dm, <<>>), <<>>), s)>>]),
     deadlines |->
         Flatten([p \in DOMAIN tm |->
                     IF tm[p] = <<>> THEN <<>> ELSE At(dm, FirstNot(dm, <<>>), <<>>)])
         \o Flatten(dm)]

SentenceStep(s) == SentenceLists(s, Lower(s), TaskMatches(s), DeadlineMatches(s))

\* the returned dict, from the sentences and what each appends
ExtractResult(sentences, steps) ==
    PDict(
      (K_summary :>
          PStr(IF Strip(Join(<<" ">>, SubSeq(sentences, 1,
                         IF Len(sentences) < 3 THEN Len(sentences) ELSE 3))) # <<>>
               THEN Strip(Join(<<" ">>, SubSeq(sentences, 1,
                         IF Len(sentences) < 3 THEN Len(sentences) ELSE 3)))
               ELSE NO_SUMMARY)) @@
      (K_action_points :>
          PList([i \in DOMAIN Dedup(Flatten([j \in DOMAIN steps |-> steps[j].action_points])) |->
                   PStr(Dedup(Flatten([j \in DOMAIN steps |-> steps[j].action_points]))[i])])) @@
      (K_tasks :> PList(Flatten([j \in DOMAIN steps |-> steps[j].tasks]))) @@
      (K_deadlines :>
          PList([i \in DOMAIN Dedup(Flatten([j \in DOMAIN steps |-> steps[j].deadlines])) |->
                   PStr(Dedup(Flatten([j \in DOMAIN steps |-> steps[j].deadlines]))[i])])) @@
      (K_speakers :> PList(<<>>)))

\* the loop of local_extract over the sentences
ExtractLoop(sentences) ==
    ExtractResult(sentences, [i \in DOMAIN sentences |-> SentenceStep(sentences[i])])

\* A faulty variant of local_extract: the transcript is not what is read
local_extract_OfNothing(text) == ExtractLoop(SplitSentences(<<>>))

\* local_extract(text): the returned dict
local_extract(text) == ExtractLoop(SplitSentences(text))

---------------------------------------------------------------------------
(* json.loads, for JSON texts of strings without escapes, integers, null,  *)
(* true, false, arrays and objects                                         *)

ParseFail == [ok |-> FALSE, val |-> PNone, pos |-> 0]

ParseOk(v, p) == [ok |-> TRUE, val |-> v, pos |-> p]

SkipWs(s, p) == RunEnd("ws*", s, p)

\* whether the character at offset p (0-based) of s is c
CharIs(s, p, c) == p < Len(s) /\ s[p + 1] = c

\* a string literal whose opening quote is at offset p
ParseString(s, p) ==
    IF ~CharIs(s, p, "\"") THEN ParseFail
    ELSE IF ~\E e \in (p + 2)..Len(s) : s[e] = "\"" THEN ParseFail
    ELSE LET e == CHOOSE e \in (p + 2)..Len(s) :
                      s[e] = "\"" /\ \A d \in (p + 2)..(e - 1) : s[d] # "\""
             body == SubSeq(s, p + 2, e - 1)
         IN  IF \E i \in DOMAIN body : body[i] \in {"\\", "\n", "\t"}
             THEN ParseFail
             ELSE ParseOk(PStr(body), e)

DigitValue(c) == CHOOSE n \in 0..9 : <<"0","1","2","3","4","5","6","7","8","9">>[n + 1] = c

RECURSIVE DigitsValue(_)
DigitsValue(ds) ==
    IF ds = <<>> THEN 0
    ELSE 10 * DigitsValue(SubSeq(ds, 1, Len(ds) - 1)) + DigitValue(ds[Len(ds)])

\* an integer literal at offset p
ParseInt(s, p) ==
    LET neg == CharIs(s, p, "-")
        a   == IF neg THEN p + 1 ELSE p
        e   == RunEnd("digits*", s, a)
    IN  IF e = a \/ (e > a + 1 /\ s[a + 1] = "0") \/ CharIs(s, e, ".")
           \/ CharIs(s, e, "e") \/ CharIs(s, e, "E")
        THEN ParseFail
        ELSE ParseOk(PNum((IF neg THEN -1 ELSE 1) * DigitsValue(SubSeq(s, a + 1, e))), e)

RECURSIVE ParseValue(_, _)
RECURSIVE ParseElems(_, _, _)
RECURSIVE ParseMembers(_, _, _)

\* a value, after optional whitespace, from offset p0
ParseValue(s, p0) ==
    LET p == SkipWs(s, p0)
    IN  CASE CharIs(s, p, "\"") -> ParseString(s, p)
          [] CharIs(s, p, "{") ->
                IF CharIs(s, SkipWs(s, p + 1), "}")
                THEN ParseOk(PDict(EmptyDict), SkipWs(s, p + 1) + 1)
                ELSE ParseMembers(s, p + 1, EmptyDict)
          [] CharIs(s, p, "[") ->
                IF CharIs(s, SkipWs(s, p + 1), "]")
                THEN ParseOk(PList(<<>>), SkipWs(s, p + 1) + 1)
                ELSE ParseElems(s, p + 1, <<>>)
          [] LitAt(s, <<"n","u","l","l">>, p, FALSE) -> ParseOk(PNone, p + 4)
          [] LitAt(s, <<"t","r","u","e">>, p, FALSE) -> ParseOk(PBool(TRUE), p + 4)
          [] LitAt(s, <<"f","a","l","s","e">>, p, FALSE) -> ParseOk(PBool(FALSE), p + 5)
          [] p < Len(s) /\ (IsDigit(s[p + 1]) \/ s[p + 1] = "-") -> ParseInt(s, p)
          [] OTHER -> ParseFail

\* the elements of an array from offset p, acc the elements read so far
ParseElems(s, p, acc) ==
    LET v == ParseValue(s, p)
        q == SkipWs(s, v.pos)
    IN  IF ~v.ok THEN ParseFail
        ELSE IF CharIs(s, q, ",") THEN ParseElems(s, q + 1, Append(acc, v.val))
        ELSE IF CharIs(s, q, "]") THEN ParseOk(PList(Append(acc, v.val)), q + 1)
        ELSE ParseFail

\* the members of an object from offset p, acc the members read so far (a
\* repeated key keeps its last value)
ParseMembers(s, p, acc) ==
    LET k  == ParseString(s, SkipWs(s, p))
        c  == SkipWs(s, k.pos)
        v  == ParseValue(s, c + 1)
        q  == SkipWs(s, v.pos)
    IN  IF ~k.ok \/ ~CharIs(s, c, ":") THEN ParseFail
        ELSE IF ~v.ok THEN ParseFail
        ELSE IF CharIs(s, q, ",")
             THEN ParseMembers(s, q + 1, (k.val.v :> v.val) @@ acc)
        ELSE IF CharIs(s, q, "}")
             THEN ParseOk(PDict((k.val.v :> v.val) @@ acc), q + 1)
        ELSE ParseFail

\* json.loads(s): [ok |-> FALSE] stands for json.JSONDecodeError
JsonLoads(s) ==
    LET v == ParseValue(s, 0)
    IN  IF v.ok /\ SkipWs(s, v.pos) = Len(s) THEN v ELSE ParseFail

---------------------------------------------------------------------------
(* Audio helpers *)

\* Path.with_suffix(".wav") on a file name
WithSuffixWav(name) ==
    LET i == RFind(name, ".")
    IN  IF 0 < i /\ i < Len(name) - 1
        THEN Slice(name, 0, i) \o <<".","w","a","v">>
        ELSE name \o <<".","w","a","v">>

\* Path(tempfile.gettempdir()) / f"up_{audio.filename}", as the file's name
TmpPath(filename) == <<"u","p","_">> \o filename

\* A faulty variant of TranscribeLoop: blank segments are kept
TranscribeLoop_KeepingBlank(segments) ==
    [parts |-> [i \in DOMAIN segments |-> Strip(segments[i].text)],
     diarization |->
         [i \in DOMAIN segments |->
             [start |-> segments[i].start, end |-> segments[i].end,
              text |-> Strip(segments[i].text)]]]

RECURSIVE TranscribeLoop(_)
\* The loop of transcribe_audio over the engine's segments: the stripped
\* texts and the kept segments
TranscribeLoop(segments) ==
    IF segments = <<>> THEN [parts |-> <<>>, diarization |-> <<>>]
    ELSE LET seg  == Head(segments)
             text == Strip(seg.text)
             rest == TranscribeLoop(Tail(segments))
         IN  IF text = <<>> THEN rest
             ELSE [parts |-> <<text>> \o rest.parts,
                   diarization |->
                       <<[start |-> seg.start, end |-> seg.end, text |-> text]>>
                       \o rest.diarization]

\* transcribe_audio, given the segments the engine yields for the file
transcribe_audio(segments) ==
    LET r == TranscribeLoop(segments)
    IN  [transcript |-> Strip(Join(<<" ">>, r.parts)), diarization |-> r.diarization]

---------------------------------------------------------------------------
(* The generation capability *)

\* GEMINI_MODEL is None: never, the module fails to import when the model
\* cannot be built (src/backend.py 45-50)
GEMINI_MODEL_IS_NONE == FALSE

\* What one call of GEMINI_MODEL.generate_content does: raises with message
\* err, or answers with text (a str or None)
Raises(err) == [raises |-> TRUE, text |-> PNone, err |-> err]

Answers(text) == [raises |-> FALSE, text |-> text, err |-> <<>>]

ExtractFailed(why) ==
    [ok |-> FALSE, val |-> PNone, err |-> <<"G","e","m","i","n","i"," ","c","a","l","l"," ","f","a","i","l","e","d",":"," ">> \o why,
     called |-> ~GEMINI_MODEL_IS_NONE]

\* gemini_extract_structured, given what the generation call does: the
\* record, or the RuntimeError it raises
gemini_extract_structured(reply) ==
    IF GEMINI_MODEL_IS_NONE
    THEN [ok |-> FALSE, val |-> PNone, err |-> <<"G","e","m","i","n","i"," ","m","o","d","e","l"," ","n","o","t"," ","i","n","i","t","i","a","l","i","z","e","d">>,
          called |-> FALSE]
    ELSE IF reply.raises THEN ExtractFailed(reply.err)
    ELSE LET content == Or(reply.text, PStr(<<>>)).v
             start   == Find(content, "{")
             end     == RFind(content, "}")
             parsed  == JsonLoads(Slice(content, start, end + 1))
         IN  IF start = -1 \/ end = -1
             THEN ExtractFailed(<<"G","e","m","i","n","i"," ","d","i","d"," ","n","o","t"," ","r","e","t","u","r","n"," ","a"," ","J","S","O","N"," ","o","b","j","e","c","t",".">>)
             ELSE IF ~parsed.ok THEN ExtractFailed(<<"J","S","O","N","D","e","c","o","d","e","E","r","r","o","r">>)
             ELSE IF parsed.val.t # "dict" THEN ExtractFailed(<<"A","t","t","r","i","b","u","t","e","E","r","r","o","r">>)
             ELSE [ok |-> TRUE,
                   val |-> PDict(
                       SetDefault(SetDefault(SetDefault(SetDefault(SetDefault(
                           parsed.val.v,
                           K_summary, PStr(NO_SUMMARY)),
                           K_action_points, PList(<<>>)),
                           K_tasks, PList(<<>>)),
                           K_deadlines, PList(<<>>)),
                           K_speakers, PList(<<>>))),
                   err |-> <<>>,
                   called |-> TRUE]

\* what each generator returns when GEMINI_MODEL is None
EMAIL_UNAVAILABLE == <<"G","e","m","i","n","i"," ","n","o","t"," ","a","v","a","i","l","a","b","l","e"," ","f","o","r"," ","e","m","a","i","l"," ","g","e","n","e","r","a","t","i","o","n",".">>

WHATSAPP_UNAVAILABLE == <<"G","e","m","i","n","i"," ","n","o","t"," ","a","v","a","i","l","a","b","l","e"," ","f","o","r"," ","W","h","a","t","s","A","p","p"," ","s","u","m","m","a","r","y",".">>

\* gemini_generate_followup_email: the returned str
gemini_generate_followup_email(summary, tasks, reply) ==
    IF GEMINI_MODEL_IS_NONE THEN EMAIL_UNAVAILABLE
    ELSE IF reply.raises THEN <<"E","m","a","i","l"," ","g","e","n","e","r","a","t","i","o","n"," ","f","a","i","l","e","d",":"," ">> \o reply.err
    ELSE Strip(Or(reply.text, PStr(<<>>)).v)

\* gemini_generate_whatsapp: the returned str
gemini_generate_whatsapp(summary, reply) ==
    IF GEMINI_MODEL_IS_NONE THEN WHATSAPP_UNAVAILABLE
    ELSE IF reply.raises THEN <<"W","h","a","t","s","A","p","p"," ","s","u","m","m","a","r","y"," ","f","a","i","l","e","d",":"," ">> \o reply.err
    ELSE Strip(Or(reply.text, PStr(<<>>)).v)

\* whether gemini_translate_summary reaches its generation call
TranslateCalls(target_lang) == ~GEMINI_MODEL_IS_NONE /\ Truthy(target_lang)

\* gemini_translate_summary: the returned value
gemini_translate_summary(summary, target_lang, reply) ==
    IF GEMINI_MODEL_IS_NONE THEN summary
    ELSE IF ~Truthy(target_lang) THEN summary
    ELSE IF reply.raises THEN summary
    ELSE Or(PStr(Strip(Or(reply.text, PStr(<<>>)).v)), summary)

---------------------------------------------------------------------------
(* The report formatter.  The report is the sequence of the pieces appended *)
(* to out: a str piece stands for its text, any other value for the text    *)
(* str() gives it.  A character outside ASCII, and the backquote, is written *)
(* as its code point, "U+2192".                                            *)

RECURSIVE SetToSeq(_)
SetToSeq(S) ==
    IF S = {} THEN <<>>
    ELSE LET x == CHOOSE x \in S : TRUE IN <<x>> \o SetToSeq(S \ {x})

\* whether  for a in x  can iterate over x
Iterable(x) == x.t \in {"list", "str", "dict"}

\* what  for a in x  yields (for a dict its keys, whose order is not kept here)
Items(x) ==
    CASE x.t = "list" -> x.v
      [] x.t = "str"  -> [i \in DOMAIN x.v |-> PStr(<<x.v[i]>>)]
      [] x.t = "dict" -> [i \in DOMAIN SetToSeq(DOMAIN x.v) |->
                             PStr(SetToSeq(DOMAIN x.v)[i])]
      [] OTHER        -> <<>>

RECURSIVE Bullets(_)
\* out += f"  - {a}\n"  for each a of xs
Bullets(xs) ==
    IF xs = <<>> THEN <<>>
    ELSE <<PStr(<<" "," ","-"," ">>), Head(xs), PStr(<<"\n">>)>> \o Bullets(Tail(xs))

\* the line of one task t, a dict
TaskLine(t) ==
    LET assignee  == Or(Or(Get(t.v, K_assignee, PNone), Get(t.v, K_speaker, PNone)),
                        PStr(<<"U","n","k","n","o","w","n">>))
        task_text == Or(Get(t.v, K_task, PNone), PStr(<<>>))
        deadline  == Or(Get(t.v, K_deadline, PNone), PStr(<<"N","o"," ","d","e","a","d","l","i","n","e">>))
    IN  <<PStr(<<" "," ","-"," ","*","*">>), assignee, PStr(<<"*", "*", " ", "U+2192", " ">>), task_text,
          PStr(<<" ","_","(","D","e","a","d","l","i","n","e",":"," ">>), deadline, PStr(<<")","_","\n">>)>>

RECURSIVE TaskLines(_)
TaskLines(ts) ==
    IF ts = <<>> THEN <<>> ELSE TaskLine(Head(ts)) \o TaskLines(Tail(ts))

\* whether the report shows the follow-up email
EmailShown(followup_email) ==
    /\ followup_email # <<>>
    /\ ~StartsWith(Lower(followup_email), <<"e","m","a","i","l"," ","g","e","n","e","r","a","t","i","o","n"," ","f","a","i","l","e","d">>)

\* whether the report shows the recap
WhatsappShown(whatsapp_msg) ==
    /\ whatsapp_msg # <<>>
    /\ ~StartsWith(Lower(whatsapp_msg), <<"w","h","a","t","s","a","p","p"," ","s","u","m","m","a","r","y"," ","f","a","i","l","e","d">>)

\* whether format_markdown_block raises on data: a list it iterates is a
\* number or a bool (TypeError), or an element of tasks has no get
\* (AttributeError)
FormatRaises(data) ==
    LET action_points == Or(Get(data.v, K_action_points, PNone), PList(<<>>))
        tasks         == Or(Get(data.v, K_tasks, PNone), PList(<<>>))
        deadlines     == Or(Get(data.v, K_deadlines, PNone), PList(<<>>))
    IN  \/ Truthy(action_points) /\ ~Iterable(action_points)
        \/ Truthy(tasks) /\ ~Iterable(tasks)
        \/ Truthy(tasks) /\ \E i \in DOMAIN Items(tasks) : Items(tasks)[i].t # "dict"
        \/ Truthy(deadlines) /\ ~Iterable(deadlines)

\* format_markdown_block: [raised |-> TRUE], or the report
format_markdown_block(data, followup_email, whatsapp_msg) ==
    LET summary       == Get(data.v, K_summary, PStr(NO_SUMMARY))
        action_points == Or(Get(data.v, K_action_points, PNone), PList(<<>>))
        tasks         == Or(Get(data.v, K_tasks, PNone), PList(<<>>))
        deadlines     == Or(Get(data.v, K_deadlines, PNone), PList(<<>>))
    IN  IF FormatRaises(data) THEN [raised |-> TRUE, out |-> <<>>]
        ELSE [raised |-> FALSE, out |->
            <<PStr(<<"-"," ","*","*","S","u","m","m","a","r","y","*","*","\n">>), PStr(<<" "," ","-"," ">>), summary, PStr(<<"\n","\n">>)>>
            \o <<PStr(<<"-"," ","*","*","A","c","t","i","o","n"," ","p","o","i","n","t","s","*","*","\n">>)>>
            \o (IF Truthy(action_points) THEN Bullets(Items(action_points))
                ELSE <<PStr(<<" "," ","-"," ","N","o","n","e"," ","d","e","t","e","c","t","e","d",".","\n">>)>>)
            \o <<PStr(<<"\n">>), PStr(<<"-"," ","*","*","T","a","s","k","s"," ","a","s","s","i","g","n","e","d"," ","t","o"," ","s","p","e","c","i","f","i","c"," ","p","e","o","p","l","e","*","*","\n">>)>>
            \o (IF Truthy(tasks) THEN TaskLines(Items(tasks))
                ELSE <<PStr(<<" "," ","-"," ","N","o"," ","e","x","p","l","i","c","i","t"," ","t","a","s","k","s"," ","f","o","u","n","d",".","\n">>)>>)
            \o <<PStr(<<"\n">>), PStr(<<"-"," ","*","*","D","e","a","d","l","i","n","e","s","*","*","\n">>)>>
            \o (IF Truthy(deadlines) THEN Bullets(Items(deadlines))
                ELSE <<PStr(<<" "," ","-"," ","N","o","n","e"," ","m","e","n","t","i","o","n","e","d",".","\n">>)>>)
            \o <<PStr(<<"\n">>), PStr(<<"-"," ","*","*","F","o","l","l","o","w","-","u","p"," ","e","m","a","i","l","s","*","*","\n">>)>>
            \o (IF EmailShown(followup_email)
                THEN <<PStr(<<" "," ","-"," ","D","r","a","f","t"," ","r","e","a","d","y"," ","b","e","l","o","w",":","\n","\n">>), PStr(<<"U+0060","U+0060","U+0060","t","e","x","t","\n">>), PStr(Strip(followup_email) \o <<"\n">>), PStr(<<"U+0060","U+0060","U+0060","\n">>)>>
                ELSE <<PStr(<<" "," ","-"," ","C","o","u","l","d"," ","n","o","t"," ","g","e","n","e","r","a","t","e"," ","e","m","a","i","l",".","\n">>)>>)
            \o <<PStr(<<"\n">>), PStr(<<"U+2FE4">> \o <<" ","*","*","S","e","n","d","s"," ","i","t"," ","t","o","*","*","\n">>), PStr(<<"-"," ","*","*","W","h","a","t","s","A","p","p","*","*"," ","U+2014">>
         \o <<" ","c","o","p","y"," ","&"," ","p","a","s","t","e"," ","t","h","i","s"," ","r","e","c","a","p",":","\n","\n">>)>>
            \o (IF WhatsappShown(whatsapp_msg)
                THEN <<PStr(<<"U+0060","U+0060","U+0060","t","e","x","t","\n">>), PStr(Strip(whatsapp_msg) \o <<"\n">>), PStr(<<"U+0060","U+0060","U+0060","\n">>)>>
                ELSE <<PStr(<<"_","N","o"," ","W","h","a","t","s","A","p","p"," ","s","u","m","m","a","r","y"," ","g","e","n","e","r","a","t","e","d",".","_","\n">>)>>)
            \o <<PStr(<<"\n">>), PStr(<<"-"," ","*","*","E","m","a","i","l","*","*"," ","U+2014">>
         \o <<" ","u","s","e"," ","t","h","e"," ","f","o","l","l","o","w","-","u","p"," ","e","m","a","i","l"," ","d","r","a","f","t"," ","a","b","o","v","e"," ","t","o"," ","s","e","n","d"," ","t","o"," ","p","a","r","t","i","c","i","p","a","n","t","s",".","\n">>)>>]

---------------------------------------------------------------------------
(* What a client can send, and what the collaborators can answer *)

FileNames == {<<"a",".","m","p","3">>, <<"a",".","w","a","v">>}

Paths == {TmpPath(f) : f \in FileNames} \cup {WithSuffixWav(TmpPath(f)) : f \in FileNames}

\* The texts the speech engine yields for a segment
SegTexts == {<<" ">>, <<" ","P","r","i","y","a"," ","w","i","l","l"," ","s","e","n","d"," ","t","h","e"," ","r","e","p","o","r","t"," ","b","y"," ","F","r","i","d","a","y",".">>}

\* The engine's segments for a sequence of texts
SegmentsOf(texts) ==
    [i \in DOMAIN texts |-> [start |-> i - 1, end |-> i, text |-> texts[i]]]

Undecodable == [decodable |-> FALSE, segs |-> <<>>]

\* What the uploaded bytes hold: nothing a decoder reads, or speech
Audios ==
    {Undecodable} \cup
    {[decodable |-> TRUE, segs |-> SegmentsOf(texts)] :
        texts \in UNION {[1..n -> SegTexts] : n \in 0..MaxSegs}}

\* target_lang: omitted, or a form field
TargetLangs ==
    {PNone, PStr(<<>>), PStr(<<"n","o","n","e">>), PStr(<<"O","r","i","g","i","n","a","l">>), PStr(<<"A","U","T","O">>), PStr(<<"H","i","n","d","i">>)}

\* An upload is empty, one read long, or the longest of the model; an empty
\* file holds no audio.
Uploads ==
    {u \in [filename : FileNames, nchunks : {0, 1, MaxChunks}, audio : Audios,
            target_lang : TargetLangs] :
        u.nchunks = 0 => u.audio = Undecodable}

\* What the generation call of tier 1 can do
ExtractReplies ==
    {Raises(<<"q","u","o","t","a">>),
     Answers(PNone),
     Answers(PStr(<<"S","o","r","r","y",","," ","I"," ","c","a","n","n","o","t",".">>)),
     Answers(PStr(<<"{","\"","s","u","m","m","a","r","y","\"",":"," ","\"","H","i","\"">>)),
     Answers(PStr(<<"}"," ","{">>)),
     Answers(PStr(<<"{","o","o","p","s","}">>)),
     Answers(PStr(<<"{","\"","s","u","m","m","a","r","y","\"",":","\"","a"," ","{","b","}","\"","}"," ","d","o","n","e"," ","}">>)),
     Answers(PStr(<<"{","}">>)),
     Answers(PStr(<<"H","e","r","e",":"," ","{","\"","s","u","m","m","a","r","y","\"",":","\"","H","i","\"",",","\"","t","a","s","k","s","\"",":","[","{","\"","a","s","s","i","g","n","e","e","\"",":","\"","A","l","\"",",","\"","t","a","s","k","\"",":","\"","D","o","\"",",","\"","d","e","a","d","l","i","n","e","\"",":","n","u","l","l","}","]","}"," ">>)),
     Answers(PStr(<<"{","\"","s","u","m","m","a","r","y","\"",":","n","u","l","l",",","\"","a","c","t","i","o","n","_","p","o","i","n","t","s","\"",":","n","u","l","l","}">>)),
     Answers(PStr(<<"{","\"","s","u","m","m","a","r","y","\"",":","\"","\"",",","\"","d","e","a","d","l","i","n","e","s","\"",":","\"","M","o","n","\"","}">>)),
     Answers(PStr(<<"{","\"","t","a","s","k","s","\"",":","[","\"","D","o","\"","]","}">>)),
     Answers(PStr(<<"{","\"","a","c","t","i","o","n","_","p","o","i","n","t","s","\"",":","7","}">>))}

\* What the generation call of an artifact can do
TextReplies == {Raises(<<"q","u","o","t","a">>), Answers(PNone), Answers(PStr(<<" ","H","i"," ","t","e","a","m",".","\n">>))}

---------------------------------------------------------------------------
(* The temporary directory *)

Absent == [cls |-> "absent", data |-> <<>>]

Exists(files, p) == files[p].cls # "absent"

\* Path.unlink
Unlink(files, p) == [files EXCEPT ![p] = Absent]

Hole == [of |-> "hole", i |-> 0]

\* f.write(chunk) at offset off of a file's bytes
WriteAt(data, off, chunk) ==
    IF off < Len(data) THEN [data EXCEPT ![off + 1] = chunk]
    ELSE data \o [i \in 1..(off - Len(data)) |-> Hole] \o <<chunk>>

\* the bytes request r uploads
FullUpload(r, n) == [i \in 1..n |-> [of |-> r, i |-> i]]

\* What a decoder makes of a file: the audio of the request whose whole
\* upload the file holds, or of a converted file; anything else is unreadable
Decode(file, ups) ==
    CASE file.cls = "wav" -> [decodable |-> TRUE, segs |-> file.data]
      [] file.cls = "bytes" /\ \E q \in Requests :
             ups[q].nchunks > 0 /\ file.data = FullUpload(q, ups[q].nchunks) ->
           ups[CHOOSE q \in Requests :
                 ups[q].nchunks > 0 /\ file.data = FullUpload(q, ups[q].nchunks)].audio
      [] OTHER -> Undecodable

---------------------------------------------------------------------------
(* The state before any request *)

NoUpload == [filename |-> <<>>, nchunks |-> 0, audio |-> Undecodable,
             target_lang |-> PNone]

NoLoc == [tmp_path |-> <<>>, off |-> 0, linked |-> FALSE,
          wav_bound |-> FALSE, wav_path |-> <<>>,
          transcript |-> <<>>, diarization |-> <<>>, note |-> <<>>,
          extracted |-> PNone, summary_text |-> PNone, tasks |-> PNone,
          followup_email |-> <<>>, whatsapp_msg |-> <<>>,
          translated_summary |-> PNone, structured_markdown |-> <<>>,
          prompts |-> <<>>,
          exc |-> "none", ret |-> <<>>]

NoResp == [status |-> 0, detail |-> <<>>, body |-> <<>>]

Init ==
    /\ fs = [p \in Paths |-> Absent]
    /\ pc = [r \in Requests |-> "idle"]
    /\ up = [r \in Requests |-> NoUpload]
    /\ loc = [r \in Requests |-> NoLoc]
    /\ resp = [r \in Requests |-> NoResp]
    /\ trace = [r \in Requests |-> <<>>]
    /\ running = "none"

---------------------------------------------------------------------------
(* summarize_meeting, one action per step.  The handler is a coroutine: it  *)
(* gives up the event loop only at  await audio.read(...) , so everything   *)
(* after the upload loop runs with no other request in between (running).   *)

\* trace[r] records, in order, what request r has done: the name of each
\* function the handler calls, "generate:x" for each generate_content call,
\* "failed:generate:x" when that call raises, and "raised:f" when f raises
\* into the handler.
Log(r, events) == trace' = [trace EXCEPT ![r] = @ \o events]

\* A faulty variant of Generate: a call that raises is made once more
Generate_Retrying(what, reply) ==
    <<"generate:" \o what>> \o
    (IF reply.raises THEN <<"generate:" \o what, "failed:generate:" \o what>> ELSE <<>>)

\* the events of one generate_content call
Generate(what, reply) ==
    <<"generate:" \o what>> \o
    (IF reply.raises THEN <<"failed:generate:" \o what>> ELSE <<>>)

\* A faulty variant of EmptyTranscript: no transcript counts as empty
EmptyTranscript_Never(transcript) == FALSE

\* if not transcript.strip()
EmptyTranscript(transcript) == Strip(transcript) = <<>>

\* A faulty variant of FallbackNote: the fallback leaves no diagnostic
FallbackNote_Empty(err) == <<>>

\* note = f"Note: Gemini failed, using local extraction instead. ({e})"
FallbackNote(err) ==
    <<"N","o","t","e",":"," ","G","e","m","i","n","i"," ","f","a","i","l","e","d",","," ","u","s","i","n","g"," ","l","o","c","a","l"," ","e","x","t","r","a","c","t","i","o","n"," ","i","n","s","t","e","a","d","."," ","(">>
    \o err \o <<")">>

\* The request arrives: tmp_path is computed and opened for writing ("wb"
\* creates the file or empties it); the handler waits for its first read.
Open(r) ==
    /\ pc[r] = "idle"
    /\ running = "none"
    /\ \E u \in Uploads :
          /\ up' = [up EXCEPT ![r] = u]
          /\ fs' = [fs EXCEPT ![TmpPath(u.filename)] = [cls |-> "bytes", data |-> <<>>]]
          /\ loc' = [loc EXCEPT ![r].tmp_path = TmpPath(u.filename),
                                ![r].off = 0,
                                ![r].linked = TRUE]
    /\ pc' = [pc EXCEPT ![r] = "reading"]
    /\ UNCHANGED <<resp, trace, running>>

\* One pass of the upload loop: a read returns the next chunk, which is
\* written at the handle's offset.
ReadChunk(r) ==
    /\ pc[r] = "reading"
    /\ running = "none"
    /\ loc[r].off < up[r].nchunks
    /\ fs' = IF loc[r].linked
             THEN [fs EXCEPT ![loc[r].tmp_path] =
                      [cls |-> "bytes",
                       data |-> WriteAt(IF @.cls = "bytes" THEN @.data ELSE <<>>,
                                        loc[r].off,
                                        [of |-> r, i |-> loc[r].off + 1])]]
             ELSE fs
    /\ loc' = [loc EXCEPT ![r].off = @ + 1]
    /\ UNCHANGED <<pc, up, resp, trace, running>>

\* The read that returns no bytes: the loop ends, the file is closed, and
\* the handler goes on without giving up the event loop.
EndUpload(r) ==
    /\ pc[r] = "reading"
    /\ running = "none"
    /\ loc[r].off = up[r].nchunks
    /\ loc' = [loc EXCEPT ![r].linked = FALSE]
    /\ IF ~Exists(fs, loc[r].tmp_path)
       THEN /\ resp' = [resp EXCEPT ![r] =
                          [status |-> 400, detail |-> <<"F","a","i","l","e","d"," ","t","o"," ","s","a","v","e"," ","u","p","l","o","a","d","e","d"," ","f","i","l","e",".">>,
                           body |-> <<>>]]
            /\ pc' = [pc EXCEPT ![r] = "done"]
            /\ UNCHANGED running
       ELSE /\ pc' = [pc EXCEPT ![r] = "convert"]
            /\ running' = r
            /\ UNCHANGED resp
    /\ UNCHANGED <<fs, up, trace>>

\* wav_path = convert_to_wav(tmp_path): AudioSegment.from_file raises on a
\* file it cannot decode; otherwise the mono 16 kHz audio is exported to
\* tmp_path.with_suffix(".wav") and wav_path is bound.
Convert(r) ==
    /\ pc[r] = "convert"
    /\ running = r
    /\ LET audio == Decode(fs[loc[r].tmp_path], up)
           out   == WithSuffixWav(loc[r].tmp_path)
       IN  IF audio.decodable
           THEN /\ fs' = [fs EXCEPT ![out] = [cls |-> "wav", data |-> audio.segs]]
                /\ loc' = [loc EXCEPT ![r].wav_bound = TRUE, ![r].wav_path = out]
                /\ pc' = [pc EXCEPT ![r] = "transcribe"]
                /\ Log(r, <<"convert_to_wav">>)
           ELSE /\ loc' = [loc EXCEPT ![r].exc = "error"]
                /\ pc' = [pc EXCEPT ![r] = "cleanup"]
                /\ Log(r, <<"convert_to_wav", "raised:convert_to_wav">>)
                /\ UNCHANGED fs
    /\ UNCHANGED <<up, resp, running>>

\* transcript, diarization = transcribe_audio(wav_path), then the check of
\* an empty transcript
Transcribe(r) ==
    /\ pc[r] = "transcribe"
    /\ running = r
    /\ LET audio == Decode(fs[loc[r].wav_path], up)
           t     == transcribe_audio(audio.segs)
       IN  IF ~audio.decodable
           THEN /\ loc' = [loc EXCEPT ![r].exc = "error"]
                /\ pc' = [pc EXCEPT ![r] = "cleanup"]
                /\ Log(r, <<"transcribe_audio", "raised:transcribe_audio">>)
           ELSE IF EmptyTranscript(t.transcript)
           THEN /\ loc' = [loc EXCEPT ![r].transcript = t.transcript,
                                     ![r].diarization = t.diarization,
                                     ![r].exc = "http400"]
                /\ pc' = [pc EXCEPT ![r] = "cleanup"]
                /\ Log(r, <<"transcribe_audio">>)
           ELSE /\ loc' = [loc EXCEPT ![r].transcript = t.transcript,
                                     ![r].diarization = t.diarization]
                /\ pc' = [pc EXCEPT ![r] = "tier1"]
                /\ Log(r, <<"transcribe_audio">>)
    /\ UNCHANGED <<fs, up, resp, running>>

\* note = ""; try: extracted = gemini_extract_structured(transcript); an
\* exception sets note and leads to the fallback
Tier1(r) ==
    /\ pc[r] = "tier1"
    /\ running = r
    /\ \E reply \in ExtractReplies :
          LET x == gemini_extract_structured(reply)
          IN  /\ IF x.ok
                 THEN /\ loc' = [loc EXCEPT ![r].note = <<>>, ![r].extracted = x.val]
                      /\ pc' = [pc EXCEPT ![r] = "email"]
                 ELSE /\ loc' = [loc EXCEPT ![r].note = FallbackNote(x.err)]
                      /\ pc' = [pc EXCEPT ![r] = "tier2"]
              /\ Log(r, <<"gemini_extract_structured">>
                        \o (IF x.called THEN Generate("extract", reply) ELSE <<>>)
                        \o (IF x.ok THEN <<>>
                            ELSE <<"raised:gemini_extract_structured">>))
    /\ UNCHANGED <<fs, up, resp, running>>

\* except Exception: extracted = local_extract(transcript)
Tier2(r) ==
    /\ pc[r] = "tier2"
    /\ running = r
    /\ loc' = [loc EXCEPT ![r].extracted = local_extract(loc[r].transcript)]
    /\ pc' = [pc EXCEPT ![r] = "email"]
    /\ Log(r, <<"local_extract">>)
    /\ UNCHANGED <<fs, up, resp, running>>

\* loc[r].prompts records, in order, the summary each prompt of the email,
\* the recap and the translation was written from
Prompt(what, summary) ==
    IF GEMINI_MODEL_IS_NONE THEN <<>> ELSE <<[what |-> what, summary |-> summary]>>

\* summary_text and tasks are read from the record; the follow-up email
Email(r) ==
    /\ pc[r] = "email"
    /\ running = r
    /\ \E reply \in TextReplies :
          LET summary_text == Get(loc[r].extracted.v, K_summary, PStr(<<>>))
              tasks        == Get(loc[r].extracted.v, K_tasks, PList(<<>>))
          IN  /\ loc' = [loc EXCEPT
                     ![r].summary_text = summary_text,
                     ![r].tasks = tasks,
                     ![r].followup_email =
                         gemini_generate_followup_email(summary_text, tasks, reply),
                     ![r].prompts = @ \o Prompt("email", summary_text)]
              /\ Log(r, <<"gemini_generate_followup_email">>
                        \o IF GEMINI_MODEL_IS_NONE THEN <<>>
                           ELSE Generate("email", reply))
    /\ pc' = [pc EXCEPT ![r] = "whatsapp"]
    /\ UNCHANGED <<fs, up, resp, running>>

\* the recap
Whatsapp(r) ==
    /\ pc[r] = "whatsapp"
    /\ running = r
    /\ \E reply \in TextReplies :
          /\ loc' = [loc EXCEPT
                 ![r].whatsapp_msg =
                     gemini_generate_whatsapp(loc[r].summary_text, reply),
                 ![r].prompts = @ \o Prompt("whatsapp", loc[r].summary_text)]
          /\ Log(r, <<"gemini_generate_whatsapp">>
                    \o IF GEMINI_MODEL_IS_NONE THEN <<>>
                       ELSE Generate("whatsapp", reply))
    /\ pc' = [pc EXCEPT ![r] = "translate"]
    /\ UNCHANGED <<fs, up, resp, running>>

\* A faulty variant of WantsTranslation: the comparison minds the letter case
WantsTranslation_CaseSensitive(target_lang) ==
    /\ Truthy(target_lang)
    /\ target_lang.v \notin {<<"n","o","n","e">>, <<"o","r","i","g","i","n","a","l">>, <<"a","u","t","o">>}

\* if target_lang and target_lang.lower() not in ["none", "original", "auto"]
WantsTranslation(target_lang) ==
    /\ Truthy(target_lang)
    /\ Lower(target_lang.v) \notin {<<"n","o","n","e">>, <<"o","r","i","g","i","n","a","l">>, <<"a","u","t","o">>}

\* translated_summary = None, and the translation when one is asked for
Translate(r) ==
    /\ pc[r] = "translate"
    /\ running = r
    /\ IF WantsTranslation(up[r].target_lang)
       THEN \E reply \in TextReplies :
               /\ loc' = [loc EXCEPT
                      ![r].translated_summary =
                          gemini_translate_summary(loc[r].summary_text,
                                                   up[r].target_lang, reply),
                      ![r].prompts = @ \o
                          IF TranslateCalls(up[r].target_lang)
                          THEN Prompt("translate", loc[r].summary_text) ELSE <<>>]
               /\ Log(r, <<"gemini_translate_summary">>
                         \o IF TranslateCalls(up[r].target_lang)
                            THEN Generate("translate", reply) ELSE <<>>)
       ELSE /\ loc' = [loc EXCEPT ![r].translated_summary = PNone]
            /\ UNCHANGED trace
    /\ pc' = [pc EXCEPT ![r] = "render"]
    /\ UNCHANGED <<fs, up, resp, running>>

\* the dict the handler returns
ResponseBody(r, structured_markdown) ==
    [transcript         |-> loc[r].transcript,
     diarization        |-> loc[r].diarization,
     summary            |-> loc[r].summary_text,
     action_points      |-> Get(loc[r].extracted.v, K_action_points, PList(<<>>)),
     tasks              |-> loc[r].tasks,
     deadlines          |-> Get(loc[r].extracted.v, K_deadlines, PList(<<>>)),
     speakers           |-> Get(loc[r].extracted.v, K_speakers, PList(<<>>)),
     structured_summary |-> structured_markdown,
     followup_email     |-> loc[r].followup_email,
     whatsapp           |-> loc[r].whatsapp_msg,
     translated_summary |-> loc[r].translated_summary,
     target_lang        |-> up[r].target_lang,
     note               |-> loc[r].note]

\* structured_markdown = format_markdown_block(...), and the return value
Render(r) ==
    /\ pc[r] = "render"
    /\ running = r
    /\ LET f == format_markdown_block(loc[r].extracted, loc[r].followup_email,
                                      loc[r].whatsapp_msg)
       IN  IF f.raised
           THEN /\ loc' = [loc EXCEPT ![r].exc = "error"]
                /\ Log(r, <<"format_markdown_block", "raised:format_markdown_block">>)
           ELSE /\ loc' = [loc EXCEPT ![r].structured_markdown = f.out,
                                      ![r].ret = <<ResponseBody(r, f.out)>>]
                /\ Log(r, <<"format_markdown_block">>)
    /\ pc' = [pc EXCEPT ![r] = "cleanup"]
    /\ UNCHANGED <<fs, up, resp, running>>

\* A faulty variant of CleanupFiles: only the upload is removed
CleanupFiles_TmpOnly(files, l) ==
    IF Exists(files, l.tmp_path) THEN Unlink(files, l.tmp_path) ELSE files

\* The files the finally block removes
CleanupFiles(files, l) ==
    LET fs1 == IF Exists(files, l.tmp_path) THEN Unlink(files, l.tmp_path) ELSE files
    IN  IF l.wav_bound /\ Exists(fs1, l.wav_path) THEN Unlink(fs1, l.wav_path) ELSE fs1

\* What the client gets for the way the try block ended
Outcome(l) ==
    CASE l.exc = "http400" ->
            [status |-> 400, detail |-> <<"T","r","a","n","s","c","r","i","p","t","i","o","n"," ","i","s"," ","e","m","p","t","y",".">>, body |-> <<>>]
      [] l.exc = "error" ->
            [status |-> 500, detail |-> <<"I","n","t","e","r","n","a","l"," ","S","e","r","v","e","r"," ","E","r","r","o","r">>, body |-> <<>>]
      [] OTHER ->
            [status |-> 200, detail |-> <<>>, body |-> l.ret]

\* finally: the cleanup; then the response, or the exception, leaves the
\* handler and the event loop is free again
Cleanup(r) ==
    /\ pc[r] = "cleanup"
    /\ running = r
    /\ fs' = CleanupFiles(fs, loc[r])
    /\ loc' = [q \in Requests |->
                 IF q # r /\ loc[q].linked /\ ~Exists(fs', loc[q].tmp_path)
                 THEN [loc[q] EXCEPT !.linked = FALSE] ELSE loc[q]]
    /\ resp' = [resp EXCEPT ![r] = Outcome(loc[r])]
    /\ pc' = [pc EXCEPT ![r] = "done"]
    /\ running' = "none"
    /\ UNCHANGED <<up, trace>>

Step(r) ==
    \/ Open(r)
    \/ ReadChunk(r)
    \/ EndUpload(r)
    \/ Convert(r)
    \/ Transcribe(r)
    \/ Tier1(r)
    \/ Tier2(r)
    \/ Email(r)
    \/ Whatsapp(r)
    \/ Translate(r)
    \/ Render(r)
    \/ Cleanup(r)

Next == \E r \in Serving : Step(r)

Spec == Init /\ [][Next]_vars

---------------------------------------------------------------------------
(* Properties of summarize_meeting, read off the trace and the response *)

\* request r has logged event e
Has(r, e) == \E i \in DOMAIN trace[r] : trace[r][i] = e

\* how many times request r has logged event e
Count(r, e) == Cardinality({i \in DOMAIN trace[r] : trace[r][i] = e})

\* request r has been answered
Done(r) == pc[r] = "done"

\* request r has been answered with the handler's return value
Succeeded(r) == pc[r] = "done" /\ resp[r].status = 200

\* the JSON object of a success response
Body(r) == resp[r].body[1]

\* C1: when a request to summarize_meeting has completed, on whatever exit
\* path (success, decode failure, empty transcript, fallback, an exception of
\* a later stage), neither its uploaded temporary file nor its converted WAV
\* file exists, also when the upload is named *.wav and the two paths are one.
C1_NoTempFilesLeft ==
    \A r \in Serving :
        Done(r) =>
            /\ ~Exists(fs, loc[r].tmp_path)
            /\ ~Exists(fs, WithSuffixWav(loc[r].tmp_path))

\* a request for an upload named *.wav was converted, fell back to tier 2
\* and succeeded
C1_Witness ==
    \E r \in Serving :
        /\ Succeeded(r)
        /\ loc[r].wav_bound
        /\ loc[r].wav_path = loc[r].tmp_path
        /\ Has(r, "local_extract")

\* C2: when convert_to_wav raises because the upload cannot be decoded, the
\* request ends with a 4xx response.
C2_DecodeFailureIsClientError ==
    \A r \in Serving :
        Done(r) /\ Has(r, "raised:convert_to_wav") =>
            resp[r].status \in 400..499

\* C3: when the transcript is empty, the request fails with status 400 and
\* nothing is called after transcribe_audio: no extraction tier, no email,
\* recap or translation.
C3_EmptyTranscriptRejected ==
    \A r \in Serving :
        Has(r, "transcribe_audio") /\ Strip(loc[r].transcript) = <<>> =>
            /\ trace[r] = <<"convert_to_wav", "transcribe_audio">>
            /\ pc[r] \in {"cleanup", "done"}
            /\ Done(r) =>
                  /\ resp[r].status = 400
                  /\ resp[r].detail = <<"T","r","a","n","s","c","r","i","p","t","i","o","n"," ","i","s"," ","e","m","p","t","y",".">>

\* a request whose audio held only a blank segment was answered with 400
C3_Witness ==
    \E r \in Serving :
        /\ Done(r)
        /\ resp[r].status = 400
        /\ up[r].audio.segs # <<>>
        /\ Has(r, "transcribe_audio")

\* the transcripts that the audios of Audios yield
Transcripts == {transcribe_audio(a.segs).transcript : a \in Audios}

\* for each of them, what the steps of local_extract make of it
Tier2Of == [t \in Transcripts |-> ExtractLoop(SplitSentences(t))]

\* C4: every failure of tier 1 is followed at once by local_extract on the
\* same transcript, and the request then succeeds; local_extract runs only
\* right after a failure of tier 1; each tier, and the generation call of
\* tier 1, runs at most once per request.
C4_FallbackOnTier1Failure ==
    \A r \in Serving :
        /\ Count(r, "gemini_extract_structured") <= 1
        /\ Count(r, "generate:extract") <= 1
        /\ Count(r, "local_extract") <= 1
        /\ \A i \in DOMAIN trace[r] :
              trace[r][i] = "local_extract" =>
                  i > 1 /\ trace[r][i - 1] = "raised:gemini_extract_structured"
        /\ \A i \in DOMAIN trace[r] :
              trace[r][i] = "raised:gemini_extract_structured" =>
                  IF i = Len(trace[r]) THEN pc[r] = "tier2"
                  ELSE trace[r][i + 1] = "local_extract"
        /\ Has(r, "local_extract") =>
              /\ Strip(loc[r].transcript) # <<>>
              /\ loc[r].extracted = Tier2Of[loc[r].transcript]
        /\ Done(r) /\ Has(r, "raised:gemini_extract_structured") =>
              resp[r].status = 200

\* the generation call of tier 1 answered, its answer was refused, and the
\* request succeeded on the record of tier 2
C4_Witness ==
    \E r \in Serving :
        /\ Succeeded(r)
        /\ Has(r, "generate:extract")
        /\ ~Has(r, "failed:generate:extract")
        /\ Has(r, "local_extract")
        /\ Body(r).summary = Get(Tier2Of[loc[r].transcript].v, K_summary, PNone)

\* C5: in a success response, note is non-empty exactly when tier 1 failed,
\* which is exactly when the record came from local_extract.
C5_NoteIffFallback ==
    \A r \in Serving :
        Succeeded(r) =>
            /\ (Body(r).note # <<>>) <=> Has(r, "raised:gemini_extract_structured")
            /\ (Body(r).note # <<>>) <=> Has(r, "local_extract")

\* a success response that carries the diagnostic
C5_Witness ==
    \E r \in Serving :
        /\ Succeeded(r)
        /\ Body(r).note # <<>>
        /\ Has(r, "raised:gemini_extract_structured")

\* of the generation calls of request r, only the one for the email raised
EmailOnlyFailed(r) ==
    /\ Has(r, "failed:generate:email")
    /\ ~Has(r, "failed:generate:extract")
    /\ ~Has(r, "failed:generate:whatsapp")
    /\ ~Has(r, "failed:generate:translate")

\* C6: when the generation call fails for the follow-up email only, the
\* request succeeds: the response carries the transcript, the summary and a
\* rendered structured_summary, followup_email is the failure sentinel, and
\* the recap and the translation step ran after the email.
C6_EmailFailureIsContained ==
    \A r \in Serving :
        Done(r) /\ EmailOnlyFailed(r) =>
            /\ resp[r].status = 200
            /\ Body(r).transcript = loc[r].transcript
            /\ Body(r).summary = loc[r].summary_text
            /\ Body(r).structured_summary # <<>>
            /\ StartsWith(Body(r).followup_email, <<"E","m","a","i","l"," ","g","e","n","e","r","a","t","i","o","n"," ","f","a","i","l","e","d",":"," ">>)
            /\ Has(r, "gemini_generate_whatsapp")
            /\ WantsTranslation(up[r].target_lang) => Has(r, "gemini_translate_summary")

\* target_lang asks for no translation: omitted, empty, or none, original or
\* auto in any letter case
NoTranslationAsked(target_lang) ==
    \/ target_lang = PNone
    \/ /\ target_lang.t = "str"
       /\ Lower(target_lang.v) \in {<<>>, <<"n","o","n","e">>, <<"o","r","i","g","i","n","a","l">>, <<"a","u","t","o">>}

\* C7: when target_lang asks for no translation, translated_summary is null
\* and no translation call is issued; for any other target_lang, a request
\* that reaches the translation step issues exactly one translation call.
C7_TranslationOnlyOnRequest ==
    \A r \in Serving :
        /\ Count(r, "generate:translate") <= 1
        /\ NoTranslationAsked(up[r].target_lang) =>
              /\ ~Has(r, "generate:translate")
              /\ ~Has(r, "gemini_translate_summary")
              /\ loc[r].translated_summary = PNone
              /\ Succeeded(r) => Body(r).translated_summary = PNone
        /\ ~NoTranslationAsked(up[r].target_lang) /\ Has(r, "format_markdown_block") =>
              Count(r, "generate:translate") = 1

\* a request with target_lang "Original" succeeded with no translation
C7_Witness ==
    \E r \in Serving :
        /\ Succeeded(r)
        /\ up[r].target_lang = PStr(<<"O","r","i","g","i","n","a","l">>)
        /\ Body(r).translated_summary = PNone
        /\ ~Has(r, "generate:translate")

\* C8: when the generation call of a requested translation fails,
\* gemini_translate_summary returns the summary it was given, so that the
\* request succeeds with translated_summary equal to summary.
C8_TranslationFailureIsContained ==
    \A r \in Serving :
        Done(r) /\ Has(r, "failed:generate:translate") =>
            /\ resp[r].status = 200
            /\ Body(r).translated_summary = Body(r).summary

\* C9: an upload longer than MAX_UPLOAD_BYTES is never written in full to
\* the temporary directory, and nothing is called for it.
C9_OversizedUploadRejected ==
    \A r \in Serving :
        up[r].nchunks > MAX_UPLOAD_BYTES =>
            /\ loc[r].off < up[r].nchunks
            /\ trace[r] = <<>>

\* C10: format_markdown_block never raises, whatever record the pipeline
\* passes to it.
C10_FormatterNeverRaises ==
    \A r \in Serving : ~Has(r, "raised:format_markdown_block")

---------------------------------------------------------------------------
(* Properties of the extraction tiers *)

\* the five keys of a structured record
RecordKeys == {K_summary, K_action_points, K_tasks, K_deadlines, K_speakers}

\* the empty or sentinel form of each key
RecordDefaults ==
    (K_summary :> PStr(NO_SUMMARY)) @@ (K_action_points :> PList(<<>>)) @@
    (K_tasks :> PList(<<>>)) @@ (K_deadlines :> PList(<<>>)) @@
    (K_speakers :> PList(<<>>))

\* what gemini_extract_structured does with each reply of ExtractReplies
Tier1Of == [reply \in ExtractReplies |-> gemini_extract_structured(reply)]

\* the JSON object a reply holds between its first "{" and its last "}"
Supplied(reply) ==
    LET content == Or(reply.text, PStr(<<>>)).v
    IN  JsonLoads(Slice(content, Find(content, "{"), RFind(content, "}") + 1)).val.v

\* for every reply that tier 1 accepts, the record is the reply's object
\* with the missing ones of the five keys added at their defaults
Tier1Defaulted ==
    \A reply \in ExtractReplies :
        Tier1Of[reply].ok =>
            LET given == Supplied(reply)
                rec   == Tier1Of[reply].val.v
            IN  /\ DOMAIN rec = DOMAIN given \cup RecordKeys
                /\ \A k \in DOMAIN rec :
                      rec[k] = IF k \in DOMAIN given THEN given[k]
                               ELSE RecordDefaults[k]

\* C11: whenever gemini_extract_structured returns, the record holds all
\* five keys summary, action_points, tasks, deadlines and speakers, whatever
\* subset the reply supplied; the omitted keys hold their defaults and the
\* supplied keys keep the reply's values.
C11_Tier1RecordHasAllKeys ==
    /\ Tier1Defaulted
    /\ \A r \in Serving :
          Has(r, "gemini_extract_structured")
          /\ ~Has(r, "raised:gemini_extract_structured") =>
              /\ loc[r].extracted.t = "dict"
              /\ RecordKeys \subseteq DOMAIN loc[r].extracted.v
              /\ \E reply \in ExtractReplies :
                    Tier1Of[reply].ok /\ Tier1Of[reply].val = loc[r].extracted

\* tier 1 returned for a reply that supplied tasks and no deadlines
C11_Witness ==
    \E r \in Serving :
        /\ Has(r, "gemini_extract_structured")
        /\ ~Has(r, "raised:gemini_extract_structured")
        /\ Get(loc[r].extracted.v, K_tasks, PNone) = PList(<<PStr(<<"D","o">>)>>)
        /\ Get(loc[r].extracted.v, K_deadlines, PNone) = PList(<<>>)
        /\ Get(loc[r].extracted.v, K_summary, PNone) = PStr(NO_SUMMARY)

---------------------------------------------------------------------------
(* local_extract on its own: the fallback of summarize_meeting applied to   *)
(* transcripts made of a few sentences                                      *)

\* Most sentences of a transcript given to local_extract on its own.
MaxSentences == 3

\* a sentence of the shape  <Name> will <clause> by <Weekday>.
ShapeSentence(x) ==
    x.name \o <<" ","w","i","l","l"," ">> \o x.clause
    \o <<" ","b","y"," ">> \o x.weekday \o <<".">>

\* instances of the shape; the first is the sentence of the documented example
Shaped ==
    {[name |-> <<"P","r","i","y","a">>, clause |-> <<"s","e","n","d"," ","t","h","e"," ","r","e","p","o","r","t">>, weekday |-> <<"F","r","i","d","a","y">>],
     [name |-> <<"B","o">>, clause |-> <<"g","o">>, weekday |-> <<"M","o","n","d","a","y">>]}

\* a sentence with none of the action keywords
KeywordFree == <<"T","h","e"," ","t","e","a","m"," ","a","g","r","e","e","d"," ","o","n"," ","t","h","e"," ","n","e","w"," ","l","o","g","o",".">>

\* The sentences transcripts are made of: the shaped ones, the keyword-free
\* one, one in which two task patterns match, and one in which the clause
\* after the modal verb can only be white space
Sentences ==
    {ShapeSentence(x) : x \in Shaped} \cup
    {KeywordFree, <<"A","l"," ","m","u","s","t"," ","x"," ","B","o"," ","t","a","s","k","e","d"," ","t","o"," ","y",".">>, <<"A","l"," ","w","i","l","l"," "," ",".","x","\n","y",".">>}

\* the transcripts: up to MaxSentences sentences, joined by one space
ExtractInputs ==
    {Join(<<" ">>, ss) : ss \in UNION {[1..n -> Sentences] : n \in 0..MaxSentences}}

\* the handler about to fall back to local_extract on a transcript
InitExtract ==
    /\ fs = [p \in Paths |-> Absent]
    /\ pc = [r \in Requests |-> IF r \in Serving THEN "tier2" ELSE "idle"]
    /\ up = [r \in Requests |-> NoUpload]
    /\ \E t \in ExtractInputs :
          loc = [r \in Requests |->
                    IF r \in Serving THEN [NoLoc EXCEPT !.transcript = t] ELSE NoLoc]
    /\ resp = [r \in Requests |-> NoResp]
    /\ trace = [r \in Requests |-> <<>>]
    /\ running = CHOOSE r \in Serving : TRUE

NextExtract == \E r \in Serving : Tier2(r)

SpecExtract == InitExtract /\ [][NextExtract]_vars

\* the record local_extract returned to request r
Extracted(r) == loc[r].extracted.v

\* the texts of a list of str
Texts(list) == [i \in DOMAIN list.v |-> list.v[i].v]

\* C12: for every transcript, the record local_extract returns has a
\* non-empty summary, and every task of it has a non-empty task text.
C12_Tier2SummaryAndTasksNonEmpty ==
    \A r \in Serving :
        Has(r, "local_extract") =>
            /\ Extracted(r)[K_summary].t = "str"
            /\ Extracted(r)[K_summary].v # <<>>
            /\ \A i \in DOMAIN Extracted(r)[K_tasks].v :
                  /\ Extracted(r)[K_tasks].v[i].v[K_task].t = "str"
                  /\ Extracted(r)[K_tasks].v[i].v[K_task].v # <<>>

\* the sentences of the transcript request r fell back on
SentencesOf(r) == SplitSentences(loc[r].transcript)

\* the places of the tasks of request r's record whose source is sentence s
TasksFrom(r, s) ==
    {i \in DOMAIN Extracted(r)[K_tasks].v :
        Extracted(r)[K_tasks].v[i].v[K_source] = PStr(s)}

\* C13: the task patterns are tried in declared order and the first match
\* wins: a sentence yields at most one task, the one of the first pattern
\* that matches it.
C13_FirstTaskPatternWins ==
    \A r \in Serving :
        Has(r, "local_extract") =>
            \A s \in Range(SentencesOf(r)) :
                /\ Cardinality(TasksFrom(r, s)) <=
                      Cardinality({j \in DOMAIN SentencesOf(r) : SentencesOf(r)[j] = s})
                /\ \A i \in TasksFrom(r, s) :
                      LET tm    == TaskMatches(s)
                          first == FirstNot(tm, <<>>)
                          t     == Extracted(r)[K_tasks].v[i].v
                      IN  /\ first # -1
                          /\ t[K_assignee] = PStr(tm[first][1].name)
                          /\ t[K_task] = PStr(Strip(tm[first][1].task))

\* C14: action_points holds no two equal strings: it holds the sentences of
\* the transcript that contain an action keyword, each once, in the order of
\* their first occurrence.
C14_ActionPointsDeduplicated ==
    \A r \in Serving :
        Has(r, "local_extract") =>
            LET ap == Texts(Extracted(r)[K_action_points])
                ss == SentencesOf(r)
                FirstAt(s) == CHOOSE j \in DOMAIN ss :
                                 ss[j] = s /\ \A k \in 1..(j - 1) : ss[k] # s
            IN  /\ \A i, j \in DOMAIN ap : i # j => ap[i] # ap[j]
                /\ Range(ap) =
                      {s \in Range(ss) :
                          \E k \in DOMAIN ACTION_KEYWORDS :
                              Contains(Lower(s), ACTION_KEYWORDS[k])}
                /\ \A i, j \in DOMAIN ap : i < j => FirstAt(ap[i]) < FirstAt(ap[j])

\* an action sentence came first and third, another one second, and
\* action_points holds the two in that order
C14_Witness ==
    \E r \in Serving :
        /\ Has(r, "local_extract")
        /\ Len(SentencesOf(r)) = 3
        /\ SentencesOf(r)[1] = SentencesOf(r)[3]
        /\ SentencesOf(r)[1] # SentencesOf(r)[2]
        /\ Texts(Extracted(r)[K_action_points]) = <<SentencesOf(r)[1], SentencesOf(r)[2]>>

---------------------------------------------------------------------------
(* Two requests in flight.  The handlers interleave at the reads of the     *)
(* upload loop; to keep the interleavings in view, the clients and the      *)
(* generation capability do less than in Spec: no translation is asked for, *)
(* an upload is at most one read long, tier 1 returns the defaults or       *)
(* raises, and the email and the recap are generated.                       *)

\* what the two clients send
ConcUploads ==
    {u \in Uploads :
        /\ u.target_lang = PNone
        /\ u.nchunks \in {0, 1}
        /\ u.nchunks = 1 => u.audio.decodable /\ Len(u.audio.segs) >= 1
        /\ \A i \in DOMAIN u.audio.segs : Strip(u.audio.segs[i].text) # <<>>}

\* the records of tier 1 in this environment
ConcRecords == {Tier1Of[Answers(PStr(<<"{", "}">>))].val}

\* a state of this environment
ConcEnv ==
    \A r \in Requests :
        /\ pc[r] # "idle" => up[r] \in ConcUploads
        /\ Has(r, "gemini_extract_structured") /\ ~Has(r, "local_extract") =>
              \/ loc[r].extracted \in ConcRecords
              \/ Has(r, "failed:generate:extract")
        /\ Has(r, "raised:gemini_extract_structured") => Has(r, "failed:generate:extract")
        /\ Has(r, "gemini_generate_followup_email") => loc[r].followup_email # <<>>
        /\ Has(r, "gemini_generate_whatsapp") => loc[r].whatsapp_msg # <<>>
        /\ ~Has(r, "failed:generate:email")
        /\ ~Has(r, "failed:generate:whatsapp")

StepConc(r) ==
    \/ Open(r) /\ ConcEnv'
    \/ ReadChunk(r) /\ ConcEnv'
    \/ EndUpload(r) /\ ConcEnv'
    \/ Convert(r) /\ ConcEnv'
    \/ Transcribe(r) /\ ConcEnv'
    \/ Tier1(r) /\ ConcEnv'
    \/ Tier2(r) /\ ConcEnv'
    \/ Email(r) /\ ConcEnv'
    \/ Whatsapp(r) /\ ConcEnv'
    \/ Translate(r) /\ ConcEnv'
    \/ Render(r) /\ ConcEnv'
    \/ Cleanup(r) /\ ConcEnv'

NextConc == \E r \in Requests : StepConc(r)

SpecConc == Init /\ [][NextConc]_vars

\* C16: two requests in flight are independent in every interleaving, also
\* when their uploads have the same filename: while a request uploads, its
\* temporary file exists and holds what it has written and nothing else;
\* from conversion to cleanup its converted file is there; and what it
\* transcribes is the audio it uploaded.
C16_RequestsIndependent ==
    \A r \in Requests :
        /\ pc[r] = "reading" =>
              fs[loc[r].tmp_path] = [cls |-> "bytes", data |-> FullUpload(r, loc[r].off)]
        /\ loc[r].wav_bound /\ pc[r] # "done" => Exists(fs, loc[r].wav_path)
        /\ Has(r, "transcribe_audio") =>
              /\ loc[r].transcript = transcribe_audio(up[r].audio.segs).transcript
              /\ loc[r].diarization = transcribe_audio(up[r].audio.segs).diarization


---------------------------------------------------------------------------
(* Properties of the response *)

\* C17: in every success response the summary is a non-empty string, whichever
\* tier produced the record, also when the tier-1 JSON object supplies the
\* summary key with an empty or null value.
C17_SummaryIsNonEmptyString ==
    \A r \in Serving :
        Succeeded(r) =>
            /\ Body(r).summary.t = "str"
            /\ Body(r).summary.v # <<>>


---------------------------------------------------------------------------
(* Properties of the transcription *)

\* the engine's segments whose trimmed text is not empty, in the engine's order
Spoken(segments) == SelectSeq(segments, LAMBDA seg : Strip(seg.text) # <<>>)

\* C19: transcribe_audio drops every segment whose trimmed text is empty: the
\* returned segments are the engine's segments of non-empty trimmed text, in
\* the engine's order and with the trimmed text, the transcript is the
\* single-space join of exactly their texts, and so the transcript is empty
\* if and only if the returned list is empty.
C19_TranscriptIsJoinOfSpokenSegments ==
    \A r \in Serving :
        (Has(r, "transcribe_audio") /\ ~Has(r, "raised:transcribe_audio")) =>
            LET kept == Spoken(up[r].audio.segs)
                d    == loc[r].diarization
            IN  /\ Len(d) = Len(kept)
                /\ \A i \in DOMAIN d :
                       /\ d[i].text = Strip(kept[i].text)
                       /\ d[i].text # <<>>
                       /\ d[i].start = kept[i].start
                       /\ d[i].end = kept[i].end
                /\ loc[r].transcript = Join(<<" ">>, [i \in DOMAIN d |-> d[i].text])
                /\ (loc[r].transcript = <<>>) <=> (d = <<>>)

\* a blank segment was dropped and a spoken one after it was kept
C19_Witness ==
    \E r \in Serving :
        /\ Has(r, "transcribe_audio")
        /\ Len(up[r].audio.segs) = 2
        /\ Strip(up[r].audio.segs[1].text) = <<>>
        /\ Len(loc[r].diarization) = 1
        /\ loc[r].diarization[1].start = 1
        /\ loc[r].transcript # <<>>


---------------------------------------------------------------------------
(* Properties of the report's generated sections.  format_markdown_block is *)
(* checked at its call site, on the strings the generators' return          *)
(* statements produce.                                                      *)

\* the records gemini_extract_structured returns for ExtractReplies
FormatRecords == {Tier1Of[reply].val : reply \in {x \in ExtractReplies : Tier1Of[x].ok}}

\* what gemini_generate_followup_email returns: the unavailability string,
\* the failure string, "" or the trimmed answer
EmailReturns ==
    {EMAIL_UNAVAILABLE} \cup
    {gemini_generate_followup_email(PNone, PNone, reply) : reply \in TextReplies}

\* what gemini_generate_whatsapp returns
WhatsappReturns ==
    {WHATSAPP_UNAVAILABLE} \cup
    {gemini_generate_whatsapp(PNone, reply) : reply \in TextReplies}

\* the handler about to render a record, an email and a recap
InitFormat ==
    /\ fs = [p \in Paths |-> Absent]
    /\ pc = [r \in Requests |-> IF r \in Serving THEN "render" ELSE "idle"]
    /\ up = [r \in Requests |-> NoUpload]
    /\ \E data \in FormatRecords, e \in EmailReturns, w \in WhatsappReturns :
          loc = [r \in Requests |->
                    IF r \in Serving
                    THEN [NoLoc EXCEPT
                             !.extracted = data,
                             !.summary_text = Get(data.v, K_summary, PStr(<<>>)),
                             !.tasks = Get(data.v, K_tasks, PList(<<>>)),
                             !.followup_email = e,
                             !.whatsapp_msg = w,
                             !.translated_summary = Get(data.v, K_summary, PStr(<<>>))]
                    ELSE NoLoc]
    /\ resp = [r \in Requests |-> NoResp]
    /\ trace = [r \in Requests |-> <<>>]
    /\ running = CHOOSE r \in Serving : TRUE

NextFormat == \E r \in Serving : Render(r)

SpecFormat == InitFormat /\ [][NextFormat]_vars

\* a failure string, an unavailability string or the empty string of the
\* email generator
EmailNotGenerated(e) ==
    \/ e = <<>>
    \/ e = EMAIL_UNAVAILABLE
    \/ StartsWith(e, <<"E","m","a","i","l"," ","g","e","n","e","r","a","t","i","o","n"," ","f","a","i","l","e","d",":"," ">>)

\* the same of the recap generator
WhatsappNotGenerated(w) ==
    \/ w = <<>>
    \/ w = WHATSAPP_UNAVAILABLE
    \/ StartsWith(w, <<"W","h","a","t","s","A","p","p"," ","s","u","m","m","a","r","y"," ","f","a","i","l","e","d",":"," ">>)

\* the report has the piece line
HasLine(report, line) == \E i \in DOMAIN report : report[i] = PStr(line)

\* some piece of the report contains the non-empty text s
Echoes(report, s) ==
    /\ s # <<>>
    /\ \E i \in DOMAIN report : report[i].t = "str" /\ Contains(report[i].v, s)

---------------------------------------------------------------------------
(* Properties of the deadlines of tier 2.  local_extract is checked at its  *)
(* call site, on transcripts whose sentences exercise the deadline patterns *)

MaxDeadlineSentences == 2

\* Sentences with a task or a deadline: two deadline patterns match with
\* different texts; only the last pattern matches; no pattern matches; the
\* first pattern matches to the right of another pattern's match; a deadline
\* and no task; two task patterns match; a day with a number; capitals
DeadlineSentences ==
    {<<"A","l"," ","w","i","l","l"," ","g","o"," ","b","y"," ","e","n","d"," ","o","f"," ","w","e","e","k",".">>,
     <<"A","l"," ","w","i","l","l"," ","g","o"," ","b","e","f","o","r","e"," ","n","e","x","t"," ","m","e","e","t","i","n","g",".">>,
     <<"A","l"," ","m","u","s","t"," ","x",".">>,
     <<"B","o"," ","w","i","l","l"," ","g","o"," ","b","e","f","o","r","e"," ","n","e","x","t"," ","m","e","e","t","i","n","g"," ","b","y"," ","n","o","o","n",".">>,
     <<"D","u","e"," ","b","y"," ","M","o","n","d","a","y",".">>,
     <<"A","l"," ","m","u","s","t"," ","x"," ","B","o"," ","t","a","s","k","e","d"," ","t","o"," ","y"," ","b","y"," ","F","r","i","d","a","y",".">>,
     <<"P","r","i","y","a"," ","w","i","l","l"," ","s","e","n","d"," ","t","h","e"," ","r","e","p","o","r","t"," ","b","y"," ","F","r","i","d","a","y"," ","5",".">>,
     <<"B","Y"," ","T","O","M","O","R","R","O","W"," ","A","l"," ","s","h","o","u","l","d"," ","c","a","l","l",".">>}

\* the transcripts: up to MaxDeadlineSentences sentences, joined by one space
DeadlineInputs ==
    {Join(<<" ">>, ss) :
        ss \in UNION {[1..n -> DeadlineSentences] : n \in 0..MaxDeadlineSentences}}

\* the handler about to fall back to local_extract on a transcript
InitDeadline ==
    /\ fs = [p \in Paths |-> Absent]
    /\ pc = [r \in Requests |-> IF r \in Serving THEN "tier2" ELSE "idle"]
    /\ up = [r \in Requests |-> NoUpload]
    /\ \E t \in DeadlineInputs :
          loc = [r \in Requests |->
                    IF r \in Serving THEN [NoLoc EXCEPT !.transcript = t] ELSE NoLoc]
    /\ resp = [r \in Requests |-> NoResp]
    /\ trace = [r \in Requests |-> <<>>]
    /\ running = CHOOSE r \in Serving : TRUE

NextDeadline == \E r \in Serving : Tier2(r)

SpecDeadline == InitDeadline /\ [][NextDeadline]_vars

\* the deadline patterns, by place in declared order, that match sentence s
DeadlineHits(s) ==
    {d \in DOMAIN DEADLINE_PATTERNS : DeadlineSearch(DEADLINE_PATTERNS[d], s) # <<>>}

\* for each sentence: <<>> when no deadline pattern matches it, and otherwise
\* <<the match of the first pattern, in declared order, that matches it>>
FirstDeadlineOf ==
    [s \in DeadlineSentences |->
        IF DeadlineHits(s) = {} THEN <<>>
        ELSE DeadlineSearch(
                 DEADLINE_PATTERNS[CHOOSE d \in DeadlineHits(s) :
                                       \A e \in DeadlineHits(s) : d <= e], s)]

\* C21: in the record local_extract returns, the deadline of every task is
\* None when no deadline pattern matches the task's source sentence, and
\* otherwise the match of the first deadline pattern, in declared order, that
\* matches it; every deadline of a task is in the record's deadlines, and
\* deadlines holds no string twice.
C21_TaskDeadlineIsFirstPatternMatch ==
    \A r \in Serving :
        Has(r, "local_extract") =>
            LET tasks == Extracted(r)[K_tasks].v
                dls   == Texts(Extracted(r)[K_deadlines])
            IN  /\ \A i \in DOMAIN tasks :
                       LET t     == tasks[i].v
                           first == FirstDeadlineOf[t[K_source].v]
                       IN  IF first = <<>> THEN t[K_deadline] = PNone
                           ELSE /\ t[K_deadline] = PStr(first[1])
                                /\ first[1] \in Range(dls)
                /\ \A i, j \in DOMAIN dls : dls[i] = dls[j] => i = j

\* a task with the first pattern's match where a later pattern matches too,
\* a task of a sentence no pattern matches, and both matches in deadlines
C21_Witness ==
    \E r \in Serving :
        /\ Has(r, "local_extract")
        /\ loc[r].transcript = <<"A","l"," ","w","i","l","l"," ","g","o"," ","b","y"," ","e","n","d"," ","o","f"," ","w","e","e","k","."," ","A","l"," ","m","u","s","t"," ","x",".">>
        /\ Len(Extracted(r)[K_tasks].v) = 2
        /\ Extracted(r)[K_tasks].v[1].v[K_deadline] = PStr(<<"b","y"," ","e","n","d"," ">>)
        /\ Extracted(r)[K_tasks].v[2].v[K_deadline] = PNone
        /\ Texts(Extracted(r)[K_deadlines]) = <<<<"b","y"," ","e","n","d"," ">>, <<"b","y"," ","e","n","d"," ","o","f"," ","w","e","e","k">>>>


---------------------------------------------------------------------------
(* Properties of the order of the stages *)

\* the stage, in the handler's order, that each event of a trace belongs to
StageOf ==
    ("convert_to_wav" :> 1) @@ ("raised:convert_to_wav" :> 1) @@
    ("transcribe_audio" :> 2) @@ ("raised:transcribe_audio" :> 2) @@
    ("gemini_extract_structured" :> 3) @@ ("generate:extract" :> 3) @@
    ("failed:generate:extract" :> 3) @@ ("raised:gemini_extract_structured" :> 3) @@
    ("local_extract" :> 3) @@
    ("gemini_generate_followup_email" :> 4) @@ ("generate:email" :> 4) @@
    ("failed:generate:email" :> 4) @@
    ("gemini_generate_whatsapp" :> 5) @@ ("generate:whatsapp" :> 5) @@
    ("failed:generate:whatsapp" :> 5) @@
    ("gemini_translate_summary" :> 6) @@ ("generate:translate" :> 6) @@
    ("failed:generate:translate" :> 6) @@
    ("format_markdown_block" :> 7) @@ ("raised:format_markdown_block" :> 7)

\* the calls of the handler, and for each the call that comes before it
CalledAfter ==
    ("transcribe_audio" :> "convert_to_wav") @@
    ("gemini_extract_structured" :> "transcribe_audio") @@
    ("local_extract" :> "raised:gemini_extract_structured") @@
    ("gemini_generate_followup_email" :> "gemini_extract_structured") @@
    ("gemini_generate_whatsapp" :> "gemini_generate_followup_email") @@
    ("gemini_translate_summary" :> "gemini_generate_whatsapp") @@
    ("format_markdown_block" :> "gemini_generate_whatsapp")

\* the calls of the generation capability
GenerateEvents ==
    {"generate:extract", "generate:email", "generate:whatsapp", "generate:translate"}

\* the artifacts written from the summary
FromSummary == {"email", "whatsapp", "translate"}

\* C22: within one request the stages run strictly in the order convert,
\* transcribe, extract, email, recap, optional translation, render; the
\* generation capability is called at most four times, once at most for each
\* of extraction, email, recap and translation, and never before
\* transcribe_audio returned a non-empty transcript; and the email, the recap
\* and the translation are written from the summary the response returns.
C22_StagesInOrder ==
    \A r \in Serving :
        LET tr == trace[r]
            ps == loc[r].prompts
        IN  /\ \A i, j \in DOMAIN tr : i < j => StageOf[tr[i]] <= StageOf[tr[j]]
            /\ Count(r, "convert_to_wav") <= 1
            /\ \A e \in DOMAIN CalledAfter :
                   /\ Count(r, e) <= 1
                   /\ Has(r, e) => Has(r, CalledAfter[e])
            /\ \A g \in GenerateEvents : Count(r, g) <= 1
            /\ Cardinality({i \in DOMAIN tr : tr[i] \in GenerateEvents}) <= 4
            /\ (\E g \in GenerateEvents : Has(r, g)) =>
                   /\ Has(r, "transcribe_audio")
                   /\ ~Has(r, "raised:transcribe_audio")
                   /\ loc[r].transcript # <<>>
            /\ \A w \in FromSummary :
                   Count(r, "generate:" \o w) =
                       Cardinality({i \in DOMAIN ps : ps[i].what = w})
            /\ \A i, j \in DOMAIN ps : ps[i].summary = ps[j].summary
            /\ Succeeded(r) =>
                   \A i \in DOMAIN ps : ps[i].summary = Body(r).summary

\* a request answered after all four calls of the generation capability
C22_Witness ==
    \E r \in Serving :
        /\ Succeeded(r)
        /\ \A g \in GenerateEvents : Has(r, g)
        /\ Len(loc[r].prompts) = 3
        /\ Has(r, "format_markdown_block")
        /\ Body(r).summary = PStr(<<"H","i">>)

=============================================================================
